---- MODULE Spec2Model ----
(***************************************************************************)
(* Soulbound identity anchoring: the Hashing Engine (lib/hash-identity),   *)
(* the verify CLI (scripts/verify-identity.mjs) and the chain lookup it    *)
(* consumes (lib/chain-client).                                            *)
(*                                                                         *)
(* Hash functions are modelled symbolically: a digest is the pair of the   *)
(* primitive that produced it and the input it was taken of, so equal      *)
(* digests come from equal inputs under the same primitive, and the two    *)
(* primitives (NIST SHA3-256, Ethereum keccak-256) never agree.            *)
(***************************************************************************)
EXTENDS Integers, Sequences, FiniteSets, TLC

VARIABLES
    files,          \* the workspace: document name -> [exists, content]
    cmd,            \* the program that runs or has exited: "idle", "hash", "verify"
    pc,             \* the position of that program
    opts,           \* verify: the parsed and merged options
    expectedHashes, \* verify: None (null) or Some(expected hash set)
    agent,          \* verify: None or Some(outcome of chainClient.lookupAgent)
    result,         \* verify: None or Some(result of verifyIdentityFiles)
    exitCode,       \* None while running, Some(process exit code) after
    error,          \* the class of the error that ended the run, "none" if none
    networkUsed,    \* TRUE once the run has made a network call
    hashes,         \* hash CLI: None or Some(snapshot returned by hashIdentityFiles)
    ioFailure,      \* None, or Some(step): a read failed, other than by ENOENT, in
                    \* the hashIdentityFiles call of that step
    config,         \* update, build: None or Some(the parsed config file)
    newHashes,      \* update: None or Some(snapshot of step 1)
    changes,        \* update: the change list of step 2
    registration,   \* update, build: None or Some(RegistrationDocument built)
    agentURI,       \* update, build: None or Some(data URI of the registration)
    tx,             \* update, client: None or Some(unsigned transaction built)
    written,        \* the files the run has written, by role
    report,         \* update: the closing message of the run
    tokenURI,       \* lookup: None or Some(the tokenURI read from the registry)
    remoteHost,     \* lookup: None or Some(what the host of the tokenURI did)
    chainWrites,    \* the transactions submitted to the chain
    keyRead,        \* TRUE once key material has been read
    notice,         \* update: what step 2 printed about the chain's state
    reads,          \* lookup: the reads of Promise.all that have settled, in order
    tba,            \* tba: None or Some(the result of tbaExists)
    deployed,       \* tba: None or Some(the code getCode returned)
    prevUpdate      \* None, or Some(config) of the update run that ended just before
                    \* this one, when this run repeats it and no document was
                    \* edited since

\* The state of the update, build and client programs.
buildVars == <<config, newHashes, changes, registration, agentURI, tx, written,
               report, tokenURI, remoteHost, chainWrites, keyRead, notice, reads,
               tba, deployed>>

vars == <<files, cmd, pc, opts, expectedHashes, agent, result, exitCode, error,
          networkUsed, hashes, ioFailure, buildVars, prevUpdate>>

\* ------------------------------------------------------------------ bounds

\* Document contents are the empty content and the one-byte contents 0..MaxByte.
MaxByte == 0

Bytes == 0..MaxByte

Contents == {<<>>} \cup {<<b>> : b \in Bytes}

\* ------------------------------------------------------------ option values

None == <<>>

Some(x) == <<x>>

\* JS truthiness of an optional number (null, undefined and 0 are falsy).
TruthyNum(o) == o # None /\ o[1] # 0

\* JS truthiness of an optional string (null, undefined and "" are falsy).
TruthyStr(o) == o # None /\ o[1] # ""

\* JS a || b on optional numbers / strings.
OrNum(a, b) == IF TruthyNum(a) THEN a ELSE b

OrStr(a, b) == IF TruthyStr(a) THEN a ELSE b

\* --------------------------------------------------------------- digests

Digest(alg, pre) == [alg |-> alg, pre |-> pre]

\* A hash that is null or undefined.
NULL == Digest("null", <<>>)

\* The literal "0x" + "0".repeat(64).
ZeroDigest == Digest("zero", <<>>)

IDENTITY_FILES == <<"SOUL.md", "USER.md", "IDENTITY.md">>

DocNames == {IDENTITY_FILES[i] : i \in 1..Len(IDENTITY_FILES)}

Entries == DocNames \cup {"_composite"}

\* hash-identity's keccak256: "0x" + createHash("sha3-256").update(data).digest("hex")
keccak256(data) == Digest("sha3-256", data)

\* chain-client's keccak256 utility: viem's keccak256 (Ethereum keccak-256).
viemKeccak256(data) == Digest("keccak-256", data)

\* ------------------------------------------------------------ the workspace

AbsentFile == [exists |-> FALSE, content |-> <<>>]

PresentFile(c) == [exists |-> TRUE, content |-> c]

FileStates == {AbsentFile} \cup {PresentFile(c) : c \in Contents}

Workspaces == [DocNames -> FileStates]

\* The code of readFile's failure on f: "ok", "ENOENT" for an absent document,
\* "EACCES" for a document in `unreadable` (any failure other than not-found).
readFileCode(ws, f, unreadable) ==
    IF f \in unreadable THEN "EACCES"
    ELSE IF ~ws[f].exists THEN "ENOENT"
    ELSE "ok"

\* ------------------------------------------------------- hashIdentityFiles

\* hashIdentityFiles rethrows a read failure that is not ENOENT.
hashIdentityFilesThrows(ws, unreadable) ==
    \E f \in DocNames : readFileCode(ws, f, unreadable) \notin {"ok", "ENOENT"}

\* fileEntry answering from a remembered reading of the document, taken when it was
\* empty, for as long as the document exists.
fileEntry_Remembered(ws, f) ==
    IF ws[f].exists
    THEN [hash |-> keccak256(<<>>), size |-> 0, exists |-> TRUE]
    ELSE [hash |-> NULL, size |-> 0, exists |-> FALSE]

\* One iteration of the loop over IDENTITY_FILES: the document is read and hashed,
\* or recorded as absent on ENOENT.
fileEntry(ws, f) ==
    IF ws[f].exists
    THEN [hash |-> keccak256(ws[f].content), size |-> Len(ws[f].content), exists |-> TRUE]
    ELSE [hash |-> NULL, size |-> 0, exists |-> FALSE]

\* hashOrZero with the placeholder dropped: results[f]?.hash || "".
hashOrZero_EmptyString(entry) == IF entry.hash # NULL THEN <<entry.hash>> ELSE <<>>

\* results[f]?.hash || "0x" + "0".repeat(64), as the one-token string it contributes.
hashOrZero(entry) == IF entry.hash # NULL THEN <<entry.hash>> ELSE <<ZeroDigest>>

\* compositeInput with the hashes sorted before the join: the input no longer
\* depends on which document a hash belongs to.
compositeInput_Sorted(results) ==
    <<{hashOrZero(results[IDENTITY_FILES[i]])[1] : i \in 1..Len(IDENTITY_FILES)}>>

\* IDENTITY_FILES.map(...).join("")
compositeInput(results) ==
    hashOrZero(results[IDENTITY_FILES[1]])
        \o hashOrZero(results[IDENTITY_FILES[2]])
        \o hashOrZero(results[IDENTITY_FILES[3]])

hashIdentityFiles(ws) ==
    LET results == [f \in DocNames |-> fileEntry(ws, f)]
    IN  [k \in Entries |->
            IF k = "_composite"
            THEN [hash |-> keccak256(compositeInput(results))]
            ELSE results[k]]

\* ------------------------------------------------------ verifyIdentityFiles

\* fileResult with the expected-hash test ahead of the existence test.
fileResult_ExpectedFirst(local, expected) ==
    IF expected = NULL
    THEN [status |-> "NO_CHAIN_HASH", expected |-> NULL, actual |-> local.hash,
          fails |-> FALSE]
    ELSE IF ~local.exists
    THEN [status |-> "MISSING", expected |-> expected, actual |-> NULL, fails |-> TRUE]
    ELSE IF local.hash = expected
    THEN [status |-> "VERIFIED", expected |-> expected, actual |-> local.hash,
          fails |-> FALSE]
    ELSE [status |-> "MISMATCH", expected |-> expected, actual |-> local.hash,
          fails |-> TRUE]

\* fileResult comparing the local entry object, not its hash, with the expected
\* string: the comparison never succeeds.
fileResult_CompareEntry(local, expected) ==
    IF ~local.exists
    THEN [status |-> "MISSING", expected |-> expected, actual |-> NULL, fails |-> TRUE]
    ELSE IF expected = NULL
    THEN [status |-> "NO_CHAIN_HASH", expected |-> NULL, actual |-> local.hash,
          fails |-> FALSE]
    ELSE [status |-> "MISMATCH", expected |-> expected, actual |-> local.hash,
          fails |-> TRUE]

\* One iteration of the per-file loop; `fails` is whether the branch sets
\* results.verified = false.
fileResult(local, expected) ==
    IF ~local.exists
    THEN [status |-> "MISSING", expected |-> expected, actual |-> NULL, fails |-> TRUE]
    ELSE IF expected = NULL
    THEN [status |-> "NO_CHAIN_HASH", expected |-> NULL, actual |-> local.hash,
          fails |-> FALSE]
    ELSE IF local.hash = expected
    THEN [status |-> "VERIFIED", expected |-> expected, actual |-> local.hash,
          fails |-> FALSE]
    ELSE [status |-> "MISMATCH", expected |-> expected, actual |-> local.hash,
          fails |-> TRUE]

\* compositeResult whose MISMATCH branch leaves results.verified alone.
compositeResult_NoFail(localComposite, expected) ==
    IF expected = NULL THEN None
    ELSE IF localComposite = expected
    THEN Some([status |-> "VERIFIED", expected |-> expected, actual |-> localComposite,
               fails |-> FALSE])
    ELSE Some([status |-> "MISMATCH", expected |-> expected, actual |-> localComposite,
               fails |-> FALSE])

\* compositeResult that never checks the composite.
compositeResult_Skipped(localComposite, expected) == None

\* The composite check: None when expectedHashes._composite is falsy.
compositeResult(localComposite, expected) ==
    IF expected = NULL THEN None
    ELSE IF localComposite = expected
    THEN Some([status |-> "VERIFIED", expected |-> expected, actual |-> localComposite,
               fails |-> FALSE])
    ELSE Some([status |-> "MISMATCH", expected |-> expected, actual |-> localComposite,
               fails |-> TRUE])

verifyIdentityFiles(ws, expected) ==
    LET localHashes == hashIdentityFiles(ws)
        perFile == [f \in DocNames |-> fileResult(localHashes[f], expected[f])]
        composite == compositeResult(localHashes["_composite"].hash, expected["_composite"])
    IN  [verified |-> /\ \A f \in DocNames : ~perFile[f].fails
                      /\ (composite = None \/ ~composite[1].fails),
         files |-> perFile,
         composite |-> composite]

\* ------------------------------------------------- published hash sets

\* The hash set that records, of a snapshot, the entries in m (hash || null for
\* each) and nothing for the others.
recordedHashes(snapshot, m) ==
    [e \in Entries |-> IF e \in m THEN snapshot[e].hash ELSE NULL]

\* update-identity --dry-run: the expected-hashes file written from newHashes.
expectedHashesFile(snapshot) == [e \in Entries |-> snapshot[e].hash]

\* The hash sets a registration or an expected-hashes file may hold: those recorded
\* from some workspace state, in full or in part.
ExpectedHashSets ==
    {recordedHashes(hashIdentityFiles(w), m) : w \in Workspaces, m \in SUBSET Entries}

\* --------------------------------------------------------- the chain client

\* What the identity registry holds for the looked-up token: the RPC endpoint fails
\* ("rpc_error"), the token was never minted and ownerOf reverts ("nonexistent"), or
\* the token is registered and its tokenURI resolves to `registration`
\* (None when fetchRegistrationFile returns null).
Registrations ==
    {None, Some([identityFiles |-> None])}
        \cup {Some([identityFiles |-> Some(e)]) : e \in ExpectedHashSets}

ChainEntries ==
    {[kind |-> k, registration |-> None] : k \in {"rpc_error", "nonexistent"}}
        \cup {[kind |-> "registered", registration |-> r] : r \in Registrations}

\* lookupAgent: Promise.all of the ownerOf and tokenURI reads rejects when a read
\* fails; otherwise the agent carries the resolved registration.
lookupAgent(entry) ==
    [threw |-> entry.kind # "registered",
     cause |-> entry.kind,
     registration |-> IF entry.kind = "registered" THEN entry.registration ELSE None]

\* ------------------------------------------------------------ the verify CLI

WorkspacePath == "/workspace"

ConfigPath == "config.json"

HashFilePath == "hashes.json"

\* Agent identifiers on the command line or in the config: token 0 and token 42.
AgentIds == {0, 42}

OptAgentIds == {None} \cup {Some(i) : i \in AgentIds}

Args ==
    [workspace : {None, Some(WorkspacePath)},
     agentId : OptAgentIds,
     config : {None, Some(ConfigPath)},
     offline : BOOLEAN,
     expectedHashes : {None, Some(HashFilePath)},
     strict : BOOLEAN]

\* readFile + JSON.parse of the --config file.
ConfigReads ==
    [ok : BOOLEAN, workspacePath : {None, Some(WorkspacePath)}, agentId : OptAgentIds]

\* readFile + JSON.parse of the --expected-hashes file: a failure, the JSON value
\* null, or a hash set.
HashFileReads ==
    {[ok |-> FALSE, value |-> None], [ok |-> TRUE, value |-> None]}
        \cup {[ok |-> TRUE, value |-> Some(e)] : e \in ExpectedHashSets}

\* parseArgs' initial opts.
DefaultOpts ==
    [workspace |-> None, agentId |-> None, offline |-> FALSE, expectedHashes |-> None,
     strict |-> FALSE]

\* process.exit(code), or the rejection handler's process.exit(3).
Exit(code, err) ==
    /\ pc' = "exited"
    /\ exitCode' = Some(code)
    /\ error' = err

\* onlineExit reporting a chain read error as a mismatch.
onlineExit_ChainErrorAsMismatch(a) ==
    IF a.threw THEN Some(1)
    ELSE IF a.registration = None THEN Some(2)
    ELSE IF a.registration[1].identityFiles = None THEN Some(2)
    ELSE None

\* The online branch after lookupAgent: the exit code it ends with, None to go on
\* to the comparison.
onlineExit(a) ==
    IF a.threw THEN Some(3)
    ELSE IF a.registration = None THEN Some(2)
    ELSE IF a.registration[1].identityFiles = None THEN Some(2)
    ELSE None

\* process.exit(result.verified ? 0 : 1)
verdictExit(r) == IF r.verified THEN 0 ELSE 1

\* ---------------------------------------------------- the registration builder

\* A hash that is undefined, the value of a key an object does not have, where the
\* code tells it from null (!==).
UNDEFINED == Digest("undefined", <<>>)

\* new Date().toISOString()
Now == "2026-01-01T00:00:00.000Z"

\* `eip155:${chainId}:${identityRegistry}` with the default chain id and registry.
AgentRegistry == "eip155:8453:0x8004A169FB4a3325136EB29fA0ceB6D2e539a432"

\* The display names a config may carry; None is a config without a name.
Names == {None, Some("Bernardo")}

\* The parsed config files: name, workspacePath and agentId are optional keys.
Configs ==
    [name : Names, workspacePath : {None, Some(WorkspacePath)}, agentId : OptAgentIds]

\* identityHashes[e]?.hash || null
hashOrNull(entry) == IF entry.hash \in {NULL, UNDEFINED} THEN NULL ELSE entry.hash

\* The registrations member: agentId ? [{agentId, agentRegistry}] : [].
registrationsOf(agentId) ==
    IF TruthyNum(agentId)
    THEN <<[agentId |-> agentId[1], agentRegistry |-> AgentRegistry]>>
    ELSE <<>>

\* The identityFiles member with the snapshot taken whatever the config says.
identityFilesOf_Always(workspacePath, ws) ==
    Some([hashes |-> [e \in Entries |-> hashOrNull(hashIdentityFiles(ws)[e])],
          _algorithm |-> "keccak256",
          _hashDate |-> Now])

\* The identityFiles member: the snapshot of the workspace if workspacePath is truthy,
\* null otherwise.
identityFilesOf(workspacePath, ws) ==
    LET identityHashes ==
            IF TruthyStr(workspacePath) THEN Some(hashIdentityFiles(ws)) ELSE None
    IN  IF identityHashes # None
        THEN Some([hashes |-> [e \in Entries |-> hashOrNull(identityHashes[1][e])],
                   _algorithm |-> "keccak256",
                   _hashDate |-> Now])
        ELSE None

\* buildRegistration(cfg) over the workspace ws, when no read fails. The members
\* that are constants or copies of config keys other than name are left out; a name
\* of None is the JS value undefined, identityFiles of None is the JS value null.
buildRegistration(cfg, ws) ==
    [name |-> cfg.name,
     registrations |-> registrationsOf(cfg.agentId),
     identityFiles |-> identityFilesOf(cfg.workspacePath, ws),
     _generatedAt |-> Now]

\* buildRegistration rejects when the hashing it calls does.
buildRegistrationThrows(cfg, ws, unreadable) ==
    TruthyStr(cfg.workspacePath) /\ hashIdentityFilesThrows(ws, unreadable)

\* The JSON value of a registration: JSON.stringify leaves out a member whose value
\* is undefined and keeps one whose value is null.
jsonValue(r) ==
    IF r.name = None THEN [k \in (DOMAIN r) \ {"name"} |-> r[k]] ELSE r

\* Texts, byte strings and base64 strings are terms: <<"json", v>> is the JSON text
\* of v, <<"utf8", t>> the UTF-8 bytes of the text t, <<"base64", b>> the base64
\* string of the bytes b, <<"percent", t>> the percent-encoding of t.
JSONstringify(r) == <<"json", jsonValue(r)>>

BufferFrom(text) == <<"utf8", text>>

toStringBase64(bytes) == <<"base64", bytes>>

\* A URI by its parts: the scheme; for a data URI whether the media type carries a
\* ;parameter before the encoding marker, whether the marker ;base64 is there,
\* whether there is a comma, and the payload after it.
DataURI(params, base64, comma, payload) ==
    [scheme |-> "data", params |-> params, base64 |-> base64, comma |-> comma,
     payload |-> payload]

\* toBase64DataURI without the ;base64 marker.
toBase64DataURI_NoMarker(r) ==
    DataURI(FALSE, FALSE, TRUE, toStringBase64(BufferFrom(JSONstringify(r))))

\* toBase64DataURI: `data:application/json;base64,${base64}`.
toBase64DataURI(r) ==
    DataURI(FALSE, TRUE, TRUE, toStringBase64(BufferFrom(JSONstringify(r))))

\* ------------------------------------------------- fetchRegistrationFile

\* Buffer.from(s, "base64"): the bytes of a base64 string, meaningless bytes for
\* any other string; it does not throw.
BufferFromBase64(payload) ==
    IF payload[1] = "base64" THEN payload[2] ELSE <<"bytes">>

\* buf.toString("utf-8"): the text of UTF-8 bytes, replacement characters for
\* any other bytes; it does not throw.
toStringUtf8(bytes) ==
    IF bytes[1] = "utf8" THEN bytes[2] ELSE <<"text">>

\* decodeURIComponent throws URIError on a malformed escape and leaves a string
\* without escapes as it is.
decodeURIComponent(payload) ==
    IF payload[1] = "badpercent" THEN [threw |-> TRUE, value |-> <<"text">>]
    ELSE IF payload[1] = "percent" THEN [threw |-> FALSE, value |-> payload[2]]
    ELSE [threw |-> FALSE, value |-> payload]

\* The outcome of a step of fetchRegistrationFile: it threw, or it returned value
\* (None is null); fetched tells whether a request was sent.
Returned(value, fetched) == [threw |-> FALSE, value |-> value, fetched |-> fetched]

Threw(fetched) == [threw |-> TRUE, value |-> None, fetched |-> fetched]

\* JSON.parse throws SyntaxError on a text that is not JSON.
JSONparse(text) ==
    IF text[1] = "json" THEN Returned(Some(text[2]), FALSE) ELSE Threw(FALSE)

\* uri.match(/^data:[^;]*;base64,(.+)$/)
base64Match(uri) ==
    ~uri.params /\ uri.base64 /\ uri.comma /\ uri.payload # <<"empty">>

\* uri.match(/^data:[^,]*,(.+)$/)
plainMatch(uri) == uri.comma /\ uri.payload # <<"empty">>

\* What the remote end does with a request: the host is unreachable, it does not
\* answer within the 10 s after which the request is aborted, it answers with a
\* non-2xx status, with a 2xx status and a body that is not JSON, or with a 2xx
\* status and a JSON body.
RemoteKinds == {"unreachable", "timeout", "non2xx", "notjson", "json"}

\* The try block of fetchRegistrationFile.
fetchRegistrationFileTry(uri, remote) ==
    IF uri.scheme = "data"
    THEN IF base64Match(uri)
         THEN JSONparse(toStringUtf8(BufferFromBase64(uri.payload)))
         ELSE IF plainMatch(uri)
         THEN LET d == decodeURIComponent(uri.payload)
              IN  IF d.threw THEN Threw(FALSE) ELSE JSONparse(d.value)
         ELSE Returned(None, FALSE)
    ELSE LET url == IF uri.scheme = "ipfs" THEN "https" ELSE uri.scheme
         IN  IF url \notin {"http", "https"} THEN Threw(FALSE)
             ELSE IF remote.kind \in {"unreachable", "timeout"} THEN Threw(TRUE)
             ELSE IF remote.kind = "non2xx" THEN Returned(None, TRUE)
             ELSE IF remote.kind = "notjson" THEN Threw(TRUE)
             ELSE Returned(remote.body, TRUE)

\* fetchRegistrationFile without its catch.
fetchRegistrationFile_NoCatch(uri, remote) ==
    IF uri.scheme = ""
    THEN [raised |-> FALSE, value |-> None, fetched |-> FALSE]
    ELSE LET t == fetchRegistrationFileTry(uri, remote)
         IN  [raised |-> t.threw, value |-> t.value, fetched |-> t.fetched]

\* fetchRegistrationFile: null for a falsy uri, the value of the try block, null
\* when the try block throws.
fetchRegistrationFile(uri, remote) ==
    IF uri.scheme = ""
    THEN [raised |-> FALSE, value |-> None, fetched |-> FALSE]
    ELSE LET t == fetchRegistrationFileTry(uri, remote)
         IN  [raised |-> FALSE,
              value |-> IF t.threw THEN None ELSE t.value,
              fetched |-> t.fetched]

\* ------------------------------------------------- the transaction builders

CONTRACTS ==
    [IDENTITY_REGISTRY |-> "0x8004A169FB4a3325136EB29fA0ceB6D2e539a432",
     TBA_REGISTRY |-> "0x000000006551c19487814612e58FE06813775758",
     TBA_IMPLEMENTATION |-> "0x55266d75D1a14E4572138116aF39863Ed6596E7F",
     CHAIN_ID |-> 8453]

\* encodeFunctionData: the call data as the function name and its arguments.
encodeFunctionData(functionName, args) == [functionName |-> functionName, args |-> args]

buildRegisterTx(uri) ==
    [to |-> CONTRACTS.IDENTITY_REGISTRY,
     data |-> encodeFunctionData("register", <<uri>>),
     description |-> <<"Register new agent with URI: ", uri.scheme>>]

buildUpdateURITx(agentId, newURI) ==
    [to |-> CONTRACTS.IDENTITY_REGISTRY,
     data |-> encodeFunctionData("setAgentURI", <<agentId, newURI>>),
     description |-> <<"Update URI for agent #", agentId>>]

\* salt defaults to "0x" + "0".repeat(64).
buildCreateTBATx(agentId) ==
    [to |-> CONTRACTS.TBA_REGISTRY,
     data |-> encodeFunctionData("createAccount",
                  <<CONTRACTS.TBA_IMPLEMENTATION, "0x00", CONTRACTS.CHAIN_ID,
                    CONTRACTS.IDENTITY_REGISTRY, agentId>>),
     description |-> <<"Create Token Bound Account for agent #", agentId>>]

buildSetMetadataTx(agentId, key, value) ==
    [to |-> CONTRACTS.IDENTITY_REGISTRY,
     data |-> encodeFunctionData("setMetadata", <<agentId, key, <<"utf8", value>>>>),
     description |-> <<"Set metadata for agent #", agentId>>]

\* ----------------------------------------------------------- the update CLI

OutputPath == "tx.json"

\* The names update-identity.mjs imports.
updateImports ==
    {"readFile", "writeFile", "buildRegistration", "toBase64DataURI",
     "estimateOnChainCost", "hashIdentityFiles", "ChainClient"}

\* parseArgs' opts; --ipfs and --verbose change what is printed only.
UpdateArgs ==
    [config : {None, Some(ConfigPath)}, dryRun : BOOLEAN, sign : BOOLEAN,
     output : {None, Some(OutputPath)}]

\* The reads of a hashIdentityFiles call that fail other than by ENOENT: none, or
\* that of one document.
ReadFaults == {{}} \cup {{f} : f \in DocNames}

\* readFile + JSON.parse of the --config file of an update run.
UpdateConfigReads ==
    {[ok |-> FALSE, config |-> None]}
        \cup {[ok |-> TRUE, config |-> Some(c)] : c \in {k \in Configs : k.name # None}}

\* The identityFiles member of a registration read from the chain, by the hashes it
\* records: those of a workspace state for the keys in m, no key for the others.
publishedHashes(snapshot, m) ==
    [e \in Entries |-> IF e \in m THEN hashOrNull(snapshot[e]) ELSE UNDEFINED]

\* The workspace states a registration on the chain was published from: each
\* document absent or empty.
PublishedWorkspaces == [DocNames -> {AbsentFile, PresentFile(<<>>)}]

OnChainHashSets ==
    {publishedHashes(hashIdentityFiles(w), m) :
        w \in PublishedWorkspaces, m \in SUBSET Entries}

\* What the registry and the tokenURI resolve to when the update run looks up.
UpdateChainEntries ==
    {[kind |-> k, registration |-> None] : k \in {"rpc_error", "nonexistent"}}
        \cup {[kind |-> "registered", registration |-> r] :
                r \in {None, Some([identityFiles |-> None])}}
        \cup {[kind |-> "registered", registration |-> Some([identityFiles |-> Some(e)])] :
                e \in OnChainHashSets}

NotSet == Digest("(not set)", <<>>)

Missing == Digest("(missing)", <<>>)

\* chainHash || "(not set)", localHash || "(missing)"
fromOf(chainHash) == IF chainHash \in {NULL, UNDEFINED} THEN NotSet ELSE chainHash

toOf(localHash) == IF localHash \in {NULL, UNDEFINED} THEN Missing ELSE localHash

\* changeOf comparing the snapshot entry, an object, with the chain's hash: the two
\* are never equal.
changeOf_CompareEntry(f, snapshot, onChain) ==
    <<[file |-> f, from |-> fromOf(onChain[f]), to |-> toOf(snapshot[f].hash)]>>

\* The change pushed for a document when localHash !== chainHash.
changeOf(f, snapshot, onChain) ==
    IF snapshot[f].hash # onChain[f]
    THEN <<[file |-> f, from |-> fromOf(onChain[f]), to |-> toOf(snapshot[f].hash)]>>
    ELSE <<>>

\* The loop over the three documents, in order.
diffChanges(snapshot, onChain) ==
    changeOf(IDENTITY_FILES[1], snapshot, onChain)
        \o changeOf(IDENTITY_FILES[2], snapshot, onChain)
        \o changeOf(IDENTITY_FILES[3], snapshot, onChain)

\* The changes when the registration has no identityFiles.
firstTimeChanges(snapshot) ==
    [i \in 1..Len(IDENTITY_FILES) |->
        [file |-> IDENTITY_FILES[i], from |-> NotSet,
         to |-> toOf(snapshot[IDENTITY_FILES[i]].hash)]]

\* What step 2 prints about the chain's state: no agentId, the lookup failed and
\* the run proceeds, the registration has no identity hashes, or the result of the
\* diff.
stepTwoNotice(cfg, entry) ==
    IF ~TruthyNum(cfg.agentId) THEN "no agentId"
    ELSE LET a == lookupAgent(entry)
         IN  IF a.threw THEN "could not read on-chain state"
             ELSE IF a.registration # None /\ a.registration[1].identityFiles # None
             THEN "diffed"
             ELSE "first time"

\* checkOnChain taking a failed lookup as the absence of differences.
checkOnChain_NoopOnError(cfg, snapshot, entry) ==
    IF ~TruthyNum(cfg.agentId)
    THEN [contacted |-> FALSE, changes |-> <<>>, noop |-> FALSE]
    ELSE LET a == lookupAgent(entry)
         IN  IF a.threw
             THEN [contacted |-> TRUE, changes |-> <<>>, noop |-> TRUE]
             ELSE IF a.registration # None /\ a.registration[1].identityFiles # None
             THEN LET ch == diffChanges(snapshot, a.registration[1].identityFiles[1])
                  IN  [contacted |-> TRUE, changes |-> ch, noop |-> ch = <<>>]
             ELSE [contacted |-> TRUE, changes |-> firstTimeChanges(snapshot),
                   noop |-> FALSE]

\* Step 2 of the update run: whether the chain is contacted, the change list, and
\* whether the run ends here with "No update needed".
checkOnChain(cfg, snapshot, entry) ==
    IF ~TruthyNum(cfg.agentId)
    THEN [contacted |-> FALSE, changes |-> <<>>, noop |-> FALSE]
    ELSE LET a == lookupAgent(entry)
         IN  IF a.threw
             THEN [contacted |-> TRUE, changes |-> <<>>, noop |-> FALSE]
             ELSE IF a.registration # None /\ a.registration[1].identityFiles # None
             THEN LET ch == diffChanges(snapshot, a.registration[1].identityFiles[1])
                  IN  [contacted |-> TRUE, changes |-> ch, noop |-> ch = <<>>]
             ELSE [contacted |-> TRUE, changes |-> firstTimeChanges(snapshot),
                   noop |-> FALSE]

\* Step 4: setAgentURI when config.agentId is truthy, register otherwise.
buildTx(cfg, uri) ==
    IF TruthyNum(cfg.agentId)
    THEN buildUpdateURITx(cfg.agentId[1], uri)
    ELSE buildRegisterTx(uri)

\* No file written by the run.
NothingWritten == [registration |-> None, expectedHashes |-> None, output |-> None]

\* The outcome of step 5.
Outcome(w, code, err, msg, submitted) ==
    [written |-> w, code |-> code, error |-> err, report |-> msg,
     submitted |-> submitted]

\* The --sign branch signing and broadcasting the transaction.
signStage_Submits(t) == Outcome(NothingWritten, 0, "none", "signed", <<t>>)

\* The --sign branch: the signer is not implemented, process.exit(1).
signStage(t) == Outcome(NothingWritten, 1, "none", "signer not implemented", <<>>)

\* Step 5: the first of --dry-run, --output, --sign that is set decides; with none
\* of them main returns.
exitStage(o, r, snapshot, t, ch) ==
    IF o.dryRun
    THEN Outcome([registration |-> Some(JSONstringify(r)),
                  expectedHashes |-> Some(expectedHashesFile(snapshot)),
                  output |-> None],
                 0, "none", "dry run", <<>>)
    ELSE IF TruthyStr(o.output)
    THEN IF "CONTRACTS" \in updateImports
         THEN Outcome([registration |-> None,
                       expectedHashes |-> None,
                       output |-> Some([to |-> t.to, data |-> t.data,
                                        description |-> t.description,
                                        chainId |-> CONTRACTS.CHAIN_ID,
                                        registration |-> jsonValue(r),
                                        changes |-> ch,
                                        timestamp |-> Now])],
                      0, "none", "unsigned transaction saved", <<>>)
         ELSE Outcome(NothingWritten, 3, "reference", "error", <<>>)
    ELSE IF o.sign
    THEN signStage(t)
    ELSE Outcome(NothingWritten, 0, "none", "use --dry-run, --output or --sign", <<>>)

\* The read failures of a hashIdentityFiles call at `step`: None if it returned.
readFailure(step, ws, unreadable) ==
    IF hashIdentityFilesThrows(ws, unreadable)
    THEN Some(step)
    ELSE None

\* The edits taken into account: any number of them between runs and during a
\* verify run, one during an update run, between its two reads of the documents,
\* and none during a lookup or tba run, which reads no document.
EditAllowed ==
    /\ cmd = "update" => (newHashes # None /\ newHashes[1] = hashIdentityFiles(files))
    /\ cmd \notin {"lookup", "tba"}

Init ==
    /\ files \in Workspaces
    /\ cmd = "idle"
    /\ pc = "idle"
    /\ opts = DefaultOpts
    /\ expectedHashes = None
    /\ agent = None
    /\ result = None
    /\ exitCode = None
    /\ error = "none"
    /\ networkUsed = FALSE
    /\ hashes = None
    /\ ioFailure = None
    /\ config = None
    /\ newHashes = None
    /\ changes = <<>>
    /\ registration = None
    /\ agentURI = None
    /\ tx = None
    /\ written = NothingWritten
    /\ report = "none"
    /\ tokenURI = None
    /\ remoteHost = None
    /\ chainWrites = <<>>
    /\ keyRead = FALSE
    /\ notice = "none"
    /\ reads = <<>>
    /\ tba = None
    /\ deployed = None
    /\ prevUpdate = None

\* The owner writes document f.
WriteFile ==
    /\ pc # "exited"
    /\ \E f \in DocNames, c \in Contents : files' = [files EXCEPT ![f] = PresentFile(c)]
    /\ EditAllowed
    /\ prevUpdate' = None
    /\ UNCHANGED <<cmd, pc, opts, expectedHashes, agent, result, exitCode, error,
                   networkUsed, hashes, ioFailure, buildVars>>

\* The owner removes document f.
DeleteFile ==
    /\ pc # "exited"
    /\ \E f \in DocNames : files' = [files EXCEPT ![f] = AbsentFile]
    /\ EditAllowed
    /\ prevUpdate' = None
    /\ UNCHANGED <<cmd, pc, opts, expectedHashes, agent, result, exitCode, error,
                   networkUsed, hashes, ioFailure, buildVars>>

\* verify: parseArgs, the config load and the workspace check.
VerifyBegin(strict) ==
    /\ cmd = "idle"
    /\ cmd' = "verify"
    /\ \E args \in {a \in Args : a.strict = strict}, cfg \in ConfigReads :
        LET loaded == args.config # None
            merged == [workspace |-> IF loaded /\ cfg.ok
                                     THEN OrStr(args.workspace, cfg.workspacePath)
                                     ELSE args.workspace,
                       agentId |-> IF loaded /\ cfg.ok
                                   THEN OrNum(args.agentId, cfg.agentId)
                                   ELSE args.agentId,
                       offline |-> args.offline,
                       expectedHashes |-> args.expectedHashes,
                       strict |-> args.strict]
        IN  /\ opts' = merged
            /\ IF loaded /\ ~cfg.ok
               THEN Exit(3, "io")
               ELSE IF ~TruthyStr(merged.workspace)
               THEN Exit(3, "config")
               ELSE pc' = "hash" /\ UNCHANGED <<exitCode, error>>
    /\ UNCHANGED <<files, expectedHashes, agent, result, networkUsed, hashes, ioFailure,
                   buildVars, prevUpdate>>

\* A verify run without --strict is started.
VerifyStart == VerifyBegin(FALSE)

\* A verify run with --strict is started. No step reads opts.strict, so the run
\* takes the steps of the run without the flag; these runs are explored in
\* SpecStrict.
VerifyStartStrict == VerifyBegin(TRUE)

\* verify step 1 going on to step 2 after a read failure.
VerifyHashLocal_Swallow ==
    /\ cmd = "verify" /\ pc = "hash"
    /\ \E unreadable \in SUBSET DocNames :
        ioFailure' = readFailure("hash", files, unreadable)
    /\ pc' = "resolve"
    /\ UNCHANGED <<files, cmd, opts, expectedHashes, agent, result, exitCode, error,
                   networkUsed, hashes, buildVars, prevUpdate>>

\* verify step 1: hash the local files (localHashes is only printed).
VerifyHashLocal ==
    /\ cmd = "verify" /\ pc = "hash"
    /\ \E unreadable \in SUBSET DocNames :
        /\ ioFailure' = readFailure("hash", files, unreadable)
        /\ IF hashIdentityFilesThrows(files, unreadable)
           THEN Exit(3, "io")
           ELSE pc' = "resolve" /\ UNCHANGED <<exitCode, error>>
    /\ UNCHANGED <<files, cmd, opts, expectedHashes, agent, result, networkUsed, hashes,
                   buildVars, prevUpdate>>

\* verify step 2, offline: the expected hashes come from the local file.
VerifyResolveOffline ==
    /\ cmd = "verify" /\ pc = "resolve"
    /\ opts.offline /\ TruthyStr(opts.expectedHashes)
    /\ \E rd \in HashFileReads :
        IF ~rd.ok
        THEN Exit(3, "io") /\ UNCHANGED expectedHashes
        ELSE /\ expectedHashes' = rd.value
             /\ pc' = "verify"
             /\ UNCHANGED <<exitCode, error>>
    /\ UNCHANGED <<files, cmd, opts, agent, result, networkUsed, hashes, ioFailure,
                   buildVars, prevUpdate>>

\* verify step 2, online: the expected hashes come from the chain.
VerifyResolveOnline ==
    /\ cmd = "verify" /\ pc = "resolve"
    /\ ~(opts.offline /\ TruthyStr(opts.expectedHashes))
    /\ TruthyNum(opts.agentId)
    /\ networkUsed' = TRUE
    /\ \E entry \in ChainEntries :
        LET a == lookupAgent(entry)
        IN  /\ agent' = Some(a)
            /\ IF onlineExit(a) # None
               THEN /\ Exit(onlineExit(a)[1], IF a.threw THEN "chain" ELSE "none")
                    /\ UNCHANGED expectedHashes
               ELSE /\ expectedHashes' = a.registration[1].identityFiles
                    /\ pc' = "verify"
                    /\ UNCHANGED <<exitCode, error>>
    /\ UNCHANGED <<files, cmd, opts, result, hashes, ioFailure, buildVars, prevUpdate>>

\* VerifyResolveNone treating the missing agent id as a configuration error.
VerifyResolveNone_ConfigError ==
    /\ cmd = "verify" /\ pc = "resolve"
    /\ ~(opts.offline /\ TruthyStr(opts.expectedHashes))
    /\ ~TruthyNum(opts.agentId)
    /\ Exit(3, "config")
    /\ UNCHANGED <<files, cmd, opts, expectedHashes, agent, result, networkUsed, hashes,
                   ioFailure, buildVars, prevUpdate>>

\* verify step 2, neither: no agent id and not offline, hash only.
VerifyResolveNone ==
    /\ cmd = "verify" /\ pc = "resolve"
    /\ ~(opts.offline /\ TruthyStr(opts.expectedHashes))
    /\ ~TruthyNum(opts.agentId)
    /\ Exit(2, "none")
    /\ UNCHANGED <<files, cmd, opts, expectedHashes, agent, result, networkUsed, hashes,
                   ioFailure, buildVars, prevUpdate>>

\* verify step 3: verifyIdentityFiles re-reads the workspace and compares; a read
\* failure, or a null hash set, rejects.
VerifyCompare ==
    /\ cmd = "verify" /\ pc = "verify"
    /\ \E unreadable \in SUBSET DocNames :
        /\ ioFailure' = readFailure("verify", files, unreadable)
        /\ IF hashIdentityFilesThrows(files, unreadable) \/ expectedHashes = None
           THEN Exit(3, "io") /\ UNCHANGED result
           ELSE LET r == verifyIdentityFiles(files, expectedHashes[1])
                IN  result' = Some(r) /\ Exit(verdictExit(r), "none")
    /\ UNCHANGED <<files, cmd, opts, expectedHashes, agent, networkUsed, hashes,
                   buildVars, prevUpdate>>

\* The hash CLI (hash-identity main): hash the workspace and print; a rejection is
\* logged by console.error and the process ends normally.
HashMain ==
    /\ cmd = "idle"
    /\ cmd' = "hash"
    /\ \E unreadable \in SUBSET DocNames :
        /\ ioFailure' = readFailure("hash", files, unreadable)
        /\ IF hashIdentityFilesThrows(files, unreadable)
           THEN hashes' = None /\ Exit(0, "io")
           ELSE hashes' = Some(hashIdentityFiles(files)) /\ Exit(0, "none")
    /\ UNCHANGED <<files, opts, expectedHashes, agent, result, networkUsed, buildVars,
                   prevUpdate>>

\* update-identity: opts.config, the config load and step 1. hashIdentityFiles
\* throws a TypeError on a workspacePath that is not a string. prev is the config
\* of the run this one repeats, if any. The other options are fixed by the command
\* line and first read at step 5; they are drawn there.
UpdateBegin(configPath, rd, unreadable, prev) ==
    /\ cmd' = "update"
    /\ opts' = [config |-> configPath]
    /\ prevUpdate' = prev
    /\ IF ~TruthyStr(configPath)
       THEN /\ config' = None /\ newHashes' = None /\ ioFailure' = None
            /\ report' = "usage"
            /\ Exit(1, "usage")
       ELSE IF ~rd.ok
       THEN /\ config' = None /\ newHashes' = None /\ ioFailure' = None
            /\ report' = "error"
            /\ Exit(3, "config")
       ELSE IF ~TruthyStr(rd.config[1].workspacePath)
       THEN /\ config' = rd.config /\ newHashes' = None /\ ioFailure' = None
            /\ report' = "error"
            /\ Exit(3, "config")
       ELSE /\ config' = rd.config
            /\ ioFailure' = readFailure("hash", files, unreadable)
            /\ IF hashIdentityFilesThrows(files, unreadable)
               THEN newHashes' = None /\ report' = "error" /\ Exit(3, "io")
               ELSE /\ newHashes' = Some(hashIdentityFiles(files))
                    /\ report' = "none"
                    /\ pc' = "diff"
                    /\ exitCode' = None
                    /\ error' = "none"
    /\ expectedHashes' = None
    /\ agent' = None
    /\ result' = None
    /\ networkUsed' = FALSE
    /\ hashes' = None
    /\ changes' = <<>>
    /\ registration' = None
    /\ agentURI' = None
    /\ tx' = None
    /\ written' = NothingWritten
    /\ tokenURI' = None
    /\ remoteHost' = None
    /\ notice' = "none"
    /\ UNCHANGED <<files, chainWrites, keyRead, reads, tba, deployed>>

\* An update run is started.
UpdateStart ==
    /\ cmd = "idle"
    /\ \E configPath \in {None, Some(ConfigPath)}, rd \in UpdateConfigReads,
          unreadable \in ReadFaults :
        UpdateBegin(configPath, rd, unreadable, None)

\* The update run is started again with the same arguments and the same config
\* file as the run that has just ended.
Rerun ==
    /\ cmd = "update" /\ pc = "exited"
    /\ config # None /\ newHashes # None /\ ioFailure = None
    /\ \E unreadable \in ReadFaults :
        UpdateBegin(opts.config, [ok |-> TRUE, config |-> config], unreadable, config)

\* UpdateDiff with a failed lookup ending the run as an operational error.
UpdateDiff_AbortOnError ==
    /\ cmd = "update" /\ pc = "diff"
    /\ \E entry \in IF TruthyNum(config[1].agentId)
                     THEN UpdateChainEntries
                     ELSE {[kind |-> "nonexistent", registration |-> None]} :
        LET d == checkOnChain(config[1], newHashes[1], entry)
        IN  /\ networkUsed' = d.contacted
            /\ changes' = d.changes
            /\ notice' = stepTwoNotice(config[1], entry)
            /\ IF lookupAgent(entry).threw /\ d.contacted
               THEN report' = "error" /\ Exit(3, "chain")
               ELSE IF d.noop
               THEN report' = "no update needed" /\ Exit(0, "none")
               ELSE pc' = "build" /\ UNCHANGED <<report, exitCode, error>>
    /\ UNCHANGED <<files, cmd, opts, expectedHashes, agent, result, hashes, ioFailure,
                   config, newHashes, registration, agentURI, tx, written, tokenURI,
                   remoteHost, chainWrites, keyRead, reads, tba, deployed, prevUpdate>>

\* update-identity step 2: the chain lookup and the diff.
UpdateDiff ==
    /\ cmd = "update" /\ pc = "diff"
    /\ \E entry \in IF TruthyNum(config[1].agentId)
                     THEN UpdateChainEntries
                     ELSE {[kind |-> "nonexistent", registration |-> None]} :
        LET d == checkOnChain(config[1], newHashes[1], entry)
        IN  /\ networkUsed' = d.contacted
            /\ changes' = d.changes
            /\ notice' = stepTwoNotice(config[1], entry)
            /\ IF d.noop
               THEN report' = "no update needed" /\ Exit(0, "none")
               ELSE pc' = "build" /\ UNCHANGED <<report, exitCode, error>>
    /\ UNCHANGED <<files, cmd, opts, expectedHashes, agent, result, hashes, ioFailure,
                   config, newHashes, registration, agentURI, tx, written, tokenURI,
                   remoteHost, chainWrites, keyRead, reads, tba, deployed, prevUpdate>>

\* update-identity steps 3 to 5: the registration built from a fresh read of the
\* documents, its data URI, the transaction, and the exit.
UpdateBuild ==
    /\ cmd = "update" /\ pc = "build"
    /\ \E args \in UpdateArgs, unreadable \in ReadFaults :
        LET cfg == config[1]
            r == buildRegistration(cfg, files)
            uri == toBase64DataURI(r)
            t == buildTx(cfg, uri)
            e == exitStage(args, r, newHashes[1], t, changes)
        IN  /\ args.config = opts.config
            /\ opts' = args
            /\ ioFailure' = readFailure("build", files, unreadable)
            /\ IF buildRegistrationThrows(cfg, files, unreadable)
               THEN /\ report' = "error"
                    /\ Exit(3, "io")
                    /\ UNCHANGED <<registration, agentURI, tx, written, chainWrites>>
               ELSE /\ registration' = Some(r)
                    /\ agentURI' = Some(uri)
                    /\ tx' = Some(t)
                    /\ written' = e.written
                    /\ report' = e.report
                    /\ chainWrites' = chainWrites \o e.submitted
                    /\ Exit(e.code, e.error)
    /\ UNCHANGED <<files, cmd, expectedHashes, agent, result, networkUsed, hashes,
                   config, newHashes, changes, tokenURI, remoteHost, keyRead, notice,
                   reads, tba, deployed, prevUpdate>>

\* registration-builder's main: the registration of the config is written next to
\* it and its data URI printed. A rejection of main is logged and the process ends
\* with code 0.
BuildMain ==
    /\ cmd = "idle"
    /\ cmd' = "build"
    /\ \E configPath \in {None, Some(ConfigPath)}, ok \in BOOLEAN, cfg \in Configs,
          unreadable \in ReadFaults :
        /\ opts' = [config |-> configPath]
        /\ IF ~TruthyStr(configPath)
           THEN /\ Exit(1, "usage")
                /\ UNCHANGED <<ioFailure, config, registration, agentURI, written>>
           ELSE IF ~ok
           THEN /\ Exit(0, "config")
                /\ UNCHANGED <<ioFailure, config, registration, agentURI, written>>
           ELSE /\ config' = Some(cfg)
                /\ ioFailure' = IF buildRegistrationThrows(cfg, files, unreadable)
                                THEN Some("build") ELSE None
                /\ IF buildRegistrationThrows(cfg, files, unreadable)
                   THEN /\ Exit(0, "io")
                        /\ UNCHANGED <<registration, agentURI, written>>
                   ELSE LET r == buildRegistration(cfg, files)
                        IN  /\ registration' = Some(r)
                            /\ written' = [NothingWritten EXCEPT
                                              !.registration = Some(JSONstringify(r))]
                            /\ agentURI' = Some(toBase64DataURI(r))
                            /\ Exit(0, "none")
    /\ UNCHANGED <<files, expectedHashes, agent, result, networkUsed, hashes, newHashes,
                   changes, tx, report, tokenURI, remoteHost, chainWrites, keyRead,
                   notice, reads, tba, deployed, prevUpdate>>

\* ------------------------------------------------------------ the chain client

OtherURI(scheme) ==
    [scheme |-> scheme, params |-> FALSE, base64 |-> FALSE, comma |-> FALSE,
     payload |-> <<"empty">>]

\* The registrations that may have been published from the workspace ws.
PublishedDocs(ws) == {jsonValue(buildRegistration(c, ws)) : c \in Configs}

\* The texts a data URI may carry: a text that is not JSON, or a registration.
Texts(ws) == {<<"notjson">>} \cup {<<"json", d>> : d \in PublishedDocs(ws)}

\* The payloads of a data URI: none, a malformed escape, and each text as it is,
\* percent-encoded and base64-encoded.
Payloads(ws) ==
    {<<"empty">>, <<"badpercent">>}
        \cup Texts(ws)
        \cup {<<"percent", t>> : t \in Texts(ws)}
        \cup {toStringBase64(BufferFrom(t)) : t \in Texts(ws)}

\* The tokenURIs: the empty string, URIs of the schemes ipfs, https, http and ftp,
\* a string with no scheme, and data URIs.
TokenURIs(ws) ==
    {OtherURI(sch) : sch \in {"", "ipfs", "https", "http", "ftp", "noscheme"}}
        \cup {DataURI(p, b, FALSE, <<"empty">>) : p, b \in BOOLEAN}
        \cup {DataURI(p, b, TRUE, pl) : p, b \in BOOLEAN, pl \in Payloads(ws)}

Remotes(ws) ==
    {[kind |-> k, body |-> None] : k \in RemoteKinds \ {"json"}}
        \cup {[kind |-> "json", body |-> Some(d)] : d \in PublishedDocs(ws)}

\* lookupAgent with the tokenURI resolved by fetchRegistrationFile; a raise of
\* fetchRegistrationFile rejects lookupAgent. A failure of the getAgentWallet read
\* is swallowed.
lookupAgentVia(kind, uri, rem) ==
    LET f == fetchRegistrationFile(uri, rem)
    IN  IF kind = "registered" /\ f.raised
        THEN [threw |-> TRUE, cause |-> "resolution", registration |-> None]
        ELSE lookupAgent([kind |-> kind, registration |-> f.value])

\* The two reads lookupAgent passes to Promise.all.
LookupReads == {"ownerOf", "tokenURI"}

\* The reads that have not settled yet.
pendingReads == LookupReads \ {reads[i].read : i \in 1..Len(reads)}

\* How a read may settle: with its value, or with a failure of the RPC; the first
\* read to settle may also find that the token does not exist, which the second
\* cannot find of a token the first has read.
ReadOutcomes == {"ok", "rpc_error"} \cup (IF reads = <<>> THEN {"nonexistent"} ELSE {})

\* A 2xx answer whose body never arrives in full.
StalledBody == [kind |-> "stall", body |-> None]

\* The answer is a 2xx status: fetch has resolved with the response, the abort
\* timer is cleared, and the body is awaited by res.json().
headersArrive(uri, rem) ==
    /\ uri.scheme \in {"ipfs", "https", "http"}
    /\ rem.kind \in {"notjson", "json", "stall"}

\* chain-client's main, command lookup, up to the two reads of Promise.all being
\* issued. A rejection of main is logged and the process ends with code 0.
LookupMain ==
    /\ cmd = "idle"
    /\ cmd' = "lookup"
    /\ \E arg \in OptAgentIds :
        /\ opts' = [agentId |-> arg]
        /\ IF arg = None
           THEN Exit(0, "usage") /\ UNCHANGED networkUsed
           ELSE /\ networkUsed' = TRUE
                /\ pc' = "reads"
                /\ UNCHANGED <<exitCode, error>>
    /\ UNCHANGED <<files, expectedHashes, agent, result, hashes, ioFailure, config,
                   newHashes, changes, registration, agentURI, tx, written, report,
                   tokenURI, remoteHost, chainWrites, keyRead, notice, reads, tba,
                   deployed, prevUpdate>>

\* LookupRead with the rejection of a read left unobserved: lookupAgent goes on
\* when both reads have settled, whatever their outcome.
LookupRead_AllSettled ==
    /\ cmd = "lookup" /\ pc = "reads"
    /\ \E r \in pendingReads, outcome \in ReadOutcomes :
        /\ reads' = Append(reads, [read |-> r, outcome |-> outcome])
        /\ \E uri \in IF r = "tokenURI" /\ outcome = "ok"
                       THEN TokenURIs(files) ELSE {OtherURI("")} :
            tokenURI' = IF r = "tokenURI" THEN Some(uri) ELSE tokenURI
        /\ pc' = IF Len(reads) = 1 THEN "resolve" ELSE "reads"
        /\ UNCHANGED <<agent, exitCode, error>>
    /\ UNCHANGED <<files, cmd, opts, expectedHashes, result, networkUsed, hashes,
                   ioFailure, config, newHashes, changes, registration, agentURI, tx,
                   written, report, remoteHost, chainWrites, keyRead, notice, tba,
                   deployed, prevUpdate>>

\* One of the two reads settles, in either order. A failure rejects Promise.all
\* and with it lookupAgent, at once; when both have succeeded lookupAgent goes on.
LookupRead ==
    /\ cmd = "lookup" /\ pc = "reads"
    /\ \E r \in pendingReads, outcome \in ReadOutcomes :
        /\ reads' = Append(reads, [read |-> r, outcome |-> outcome])
        /\ IF outcome # "ok"
           THEN /\ agent' = Some(lookupAgent([kind |-> outcome, registration |-> None]))
                /\ Exit(0, "chain")
                /\ UNCHANGED tokenURI
           ELSE /\ \E uri \in IF r = "tokenURI" THEN TokenURIs(files) ELSE {OtherURI("")} :
                    tokenURI' = IF r = "tokenURI" THEN Some(uri) ELSE tokenURI
                /\ pc' = IF Len(reads) = 1 THEN "resolve" ELSE "reads"
                /\ UNCHANGED <<agent, exitCode, error>>
    /\ UNCHANGED <<files, cmd, opts, expectedHashes, result, networkUsed, hashes,
                   ioFailure, config, newHashes, changes, registration, agentURI, tx,
                   written, report, remoteHost, chainWrites, keyRead, notice, tba,
                   deployed, prevUpdate>>

\* lookupAgent after Promise.all: the getAgentWallet read, whose failure is
\* swallowed, and fetchRegistrationFile up to the answer of the host. On a 2xx
\* answer the body is awaited; in every other case lookupAgent returns and main
\* prints the agent.
LookupResolve ==
    /\ cmd = "lookup" /\ pc = "resolve"
    /\ \E rem \in IF tokenURI[1].scheme \in {"ipfs", "https", "http"}
                   THEN Remotes(files) \cup {StalledBody}
                   ELSE {[kind |-> "unreachable", body |-> None]} :
        IF headersArrive(tokenURI[1], rem)
        THEN /\ remoteHost' = Some(rem)
             /\ pc' = "body"
             /\ UNCHANGED <<agent, exitCode, error>>
        ELSE LET a == lookupAgentVia("registered", tokenURI[1], rem)
                 f == fetchRegistrationFile(tokenURI[1], rem)
             IN  /\ agent' = Some(a)
                 /\ remoteHost' = IF f.fetched THEN Some(rem) ELSE None
                 /\ Exit(0, IF a.threw THEN "chain" ELSE "none")
    /\ UNCHANGED <<files, cmd, opts, expectedHashes, result, networkUsed, hashes,
                   ioFailure, config, newHashes, changes, registration, agentURI, tx,
                   written, report, tokenURI, chainWrites, keyRead, notice, reads, tba,
                   deployed, prevUpdate>>

\* The body of the 2xx answer has arrived and res.json() settles; lookupAgent
\* returns. Of a body that never arrives in full nothing follows.
LookupBody ==
    /\ cmd = "lookup" /\ pc = "body"
    /\ remoteHost[1].kind # "stall"
    /\ LET a == lookupAgentVia("registered", tokenURI[1], remoteHost[1])
       IN  /\ agent' = Some(a)
           /\ Exit(0, IF a.threw THEN "chain" ELSE "none")
    /\ UNCHANGED <<files, cmd, opts, expectedHashes, result, networkUsed, hashes,
                   ioFailure, config, newHashes, changes, registration, agentURI, tx,
                   written, report, tokenURI, remoteHost, chainWrites, keyRead, notice,
                   reads, tba, deployed, prevUpdate>>

\* The address the registry's account view returns for the token: a function of
\* the implementation, the salt (all-zero by default), the chain id, the token
\* contract and the token id.
getTBAAddress(agentId) ==
    [registry |-> CONTRACTS.TBA_REGISTRY,
     account |-> <<CONTRACTS.TBA_IMPLEMENTATION, "0x00", CONTRACTS.CHAIN_ID,
                   CONTRACTS.IDENTITY_REGISTRY, agentId>>]

\* What getCode returns: undefined (None), the empty code "0x" (Some of no byte),
\* or the code deployed (Some of its bytes).
Codes == {None, Some(<<>>), Some(<<54>>)}

\* code && code !== "0x": the undefined code itself, or the boolean.
andNotEmpty(code) ==
    IF code = None THEN <<"undefined">> ELSE <<"boolean", code[1] # <<>>>>

tbaExists(agentId, code) ==
    [address |-> getTBAAddress(agentId), exists |-> andNotEmpty(code)]

\* chain-client's main, command tba: the account read, then getCode. A rejection
\* of main is logged and the process ends with code 0.
TbaMain ==
    /\ cmd = "idle"
    /\ cmd' = "tba"
    /\ \E arg \in OptAgentIds, accountRead \in BOOLEAN, codeRead \in BOOLEAN,
          code \in Codes :
        /\ opts' = [agentId |-> arg]
        /\ IF arg = None
           THEN Exit(0, "usage") /\ UNCHANGED <<networkUsed, tba, deployed>>
           ELSE /\ networkUsed' = TRUE
                /\ IF ~accountRead \/ ~codeRead
                   THEN Exit(0, "chain") /\ UNCHANGED <<tba, deployed>>
                   ELSE /\ deployed' = Some(code)
                        /\ tba' = Some(tbaExists(arg[1], code))
                        /\ Exit(0, "none")
    /\ UNCHANGED <<files, expectedHashes, agent, result, hashes, ioFailure, config,
                   newHashes, changes, registration, agentURI, tx, written, report,
                   tokenURI, remoteHost, chainWrites, keyRead, notice, reads,
                   prevUpdate>>

\* A call of one of the four write builders of a ChainClient.
ClientBuildTx ==
    /\ cmd = "idle"
    /\ cmd' = "client"
    /\ pc' = "exited"
    /\ \E id \in AgentIds, cfg \in Configs :
        LET uri == toBase64DataURI(buildRegistration(cfg, files))
        IN  tx' \in {Some(buildRegisterTx(uri)),
                     Some(buildUpdateURITx(id, uri)),
                     Some(buildCreateTBATx(id)),
                     Some(buildSetMetadataTx(id, "soul", "locked"))}
    /\ UNCHANGED <<files, opts, expectedHashes, agent, result, exitCode, error,
                   networkUsed, hashes, ioFailure, config, newHashes, changes,
                   registration, agentURI, written, report, tokenURI, remoteHost,
                   chainWrites, keyRead, notice, reads, tba, deployed, prevUpdate>>

\* The next invocation: a fresh process on the same workspace.
Restart ==
    /\ pc = "exited"
    /\ cmd' = "idle"
    /\ pc' = "idle"
    /\ opts' = DefaultOpts
    /\ expectedHashes' = None
    /\ agent' = None
    /\ result' = None
    /\ exitCode' = None
    /\ error' = "none"
    /\ networkUsed' = FALSE
    /\ hashes' = None
    /\ ioFailure' = None
    /\ config' = None
    /\ newHashes' = None
    /\ changes' = <<>>
    /\ registration' = None
    /\ agentURI' = None
    /\ tx' = None
    /\ written' = NothingWritten
    /\ report' = "none"
    /\ tokenURI' = None
    /\ remoteHost' = None
    /\ notice' = "none"
    /\ reads' = <<>>
    /\ tba' = None
    /\ deployed' = None
    /\ prevUpdate' = None
    /\ UNCHANGED <<files, chainWrites, keyRead>>

Next ==
    \/ WriteFile
    \/ DeleteFile
    \/ VerifyStart
    \/ VerifyHashLocal
    \/ VerifyResolveOffline
    \/ VerifyResolveOnline
    \/ VerifyResolveNone
    \/ VerifyCompare
    \/ HashMain
    \/ UpdateStart
    \/ UpdateDiff
    \/ UpdateBuild
    \/ BuildMain
    \/ LookupMain
    \/ LookupRead
    \/ LookupResolve
    \/ LookupBody
    \/ TbaMain
    \/ ClientBuildTx
    \/ Restart

Spec == Init /\ [][Next]_vars

\* Update runs only, with the run that repeats the one before it.
NextRepeat ==
    \/ WriteFile
    \/ DeleteFile
    \/ UpdateStart
    \/ UpdateDiff
    \/ UpdateBuild
    \/ Rerun
    \/ Restart

SpecRepeat == Init /\ [][NextRepeat]_vars

\* Lookups only. Every step of a lookup that can be taken is taken in the end: a
\* read of the chain settles, a continuation whose promise has settled runs.
NextFetch ==
    \/ LookupMain
    \/ LookupRead
    \/ LookupResolve
    \/ LookupBody
    \/ Restart

SpecFetch == Init /\ [][NextFetch]_vars /\ WF_vars(NextFetch)

\* Verify runs only, with and without --strict.
NextStrict ==
    \/ WriteFile
    \/ DeleteFile
    \/ VerifyStart
    \/ VerifyStartStrict
    \/ VerifyHashLocal
    \/ VerifyResolveOffline
    \/ VerifyResolveOnline
    \/ VerifyResolveNone
    \/ VerifyCompare
    \/ Restart

SpecStrict == Init /\ [][NextStrict]_vars

\* ------------------------------------------------------------------ claims

\* A verify run that has compared and exited; files is the workspace it compared.
VerifyDone == cmd = "verify" /\ pc = "exited" /\ result # None

\* A hash run that has returned a snapshot; files is the workspace it hashed.
HashDone == cmd = "hash" /\ pc = "exited" /\ hashes # None

AllPresent(ws) == \A f \in DocNames : ws[f].exists

\* C1: every document gets the one status that the precedence MISSING (absent
\* locally), NO_CHAIN_HASH (no expected hash), VERIFIED (hashes equal), MISMATCH
\* selects.
C1_StatusPrecedence ==
    VerifyDone =>
        \A f \in DocNames :
            result[1].files[f].status =
                IF ~files[f].exists THEN "MISSING"
                ELSE IF expectedHashes[1][f] = NULL THEN "NO_CHAIN_HASH"
                ELSE IF expectedHashes[1][f] = keccak256(files[f].content) THEN "VERIFIED"
                ELSE "MISMATCH"

\* A document absent locally with an expected hash recorded, beside one without an
\* expected hash and one whose hash differs.
C1_Witness ==
    /\ VerifyDone
    /\ \E f, g, h \in DocNames :
        /\ ~files[f].exists /\ expectedHashes[1][f] # NULL
        /\ result[1].files[f].status = "MISSING"
        /\ result[1].files[g].status = "NO_CHAIN_HASH"
        /\ result[1].files[h].status = "MISMATCH"

\* C2: verified is true exactly when every document is VERIFIED or NO_CHAIN_HASH
\* and the composite, checked exactly when an expected composite exists, is VERIFIED.
C2_VerifiedIff ==
    VerifyDone =>
        /\ (result[1].composite # None) <=> (expectedHashes[1]["_composite"] # NULL)
        /\ result[1].verified <=>
            /\ \A f \in DocNames :
                result[1].files[f].status \in {"VERIFIED", "NO_CHAIN_HASH"}
            /\ (expectedHashes[1]["_composite"] # NULL
                    => result[1].composite # None
                       /\ result[1].composite[1].status = "VERIFIED")

\* Only the composite mismatches: no document is MISSING or MISMATCH.
C2_Witness ==
    /\ VerifyDone
    /\ \A f \in DocNames : result[1].files[f].status \in {"VERIFIED", "NO_CHAIN_HASH"}
    /\ result[1].composite # None
    /\ result[1].composite[1].status = "MISMATCH"
    /\ ~result[1].verified

\* Whether the chain lookup of the run found a registration with hash data.
FoundHashData ==
    /\ agent # None
    /\ ~agent[1].threw
    /\ agent[1].registration # None
    /\ agent[1].registration[1].identityFiles # None

\* C3: a verify run that has ended has exactly one exit code: 0 only after a
\* comparison with verified=true, 1 only after a comparison with verified=false, 2
\* only without a comparison and without an error, no hash data having been found, 3
\* only for an operational error; a chain read error never gives 1 and a mismatch
\* never gives 2 or 3.
C3_ExitCodes ==
    /\ cmd = "verify" => ((pc = "exited") <=> (exitCode # None))
    /\ (cmd = "verify" /\ pc = "exited") =>
        /\ exitCode \in {Some(0), Some(1), Some(2), Some(3)}
        /\ exitCode = Some(0) => result # None /\ result[1].verified /\ error = "none"
        /\ exitCode = Some(1) => result # None /\ ~result[1].verified /\ error = "none"
        /\ exitCode = Some(2) =>
            /\ result = None /\ error = "none" /\ expectedHashes = None
            /\ ~FoundHashData
        /\ exitCode = Some(3) => result = None /\ error \in {"config", "io", "chain"}
        /\ error = "chain" => exitCode # Some(1)
        /\ (result # None /\ ~result[1].verified) => exitCode \notin {Some(2), Some(3)}

\* A run ended by a chain read error.
C3_Witness ==
    /\ cmd = "verify" /\ pc = "exited"
    /\ agent # None /\ agent[1].threw
    /\ error = "chain"
    /\ exitCode = Some(3)

\* The workspace differs from w0 in the content of document f and in nothing else.
OnlyContentChanged(w0, ws, f) ==
    /\ w0[f].exists /\ ws[f].exists /\ ws[f].content # w0[f].content
    /\ \A g \in DocNames \ {f} : ws[g] = w0[g]

\* C4: against the full hash set of a workspace w0 with all three documents, verify
\* reports all VERIFIED on w0 itself, and on w0 with the content of one document
\* changed it reports verified=false, MISMATCH for that document and the composite,
\* VERIFIED for the other two.
C4_TamperScenario ==
    VerifyDone =>
        \A w0 \in Workspaces :
            (AllPresent(w0)
             /\ expectedHashes[1] = recordedHashes(hashIdentityFiles(w0), Entries)) =>
                /\ files = w0 =>
                    /\ result[1].verified
                    /\ \A f \in DocNames : result[1].files[f].status = "VERIFIED"
                    /\ result[1].composite # None
                    /\ result[1].composite[1].status = "VERIFIED"
                /\ \A f \in DocNames :
                    OnlyContentChanged(w0, files, f) =>
                        /\ ~result[1].verified
                        /\ result[1].files[f].status = "MISMATCH"
                        /\ result[1].composite # None
                        /\ result[1].composite[1].status = "MISMATCH"
                        /\ \A g \in DocNames \ {f} :
                            result[1].files[g].status = "VERIFIED"

\* The content of USER.md changed after the hash set was recorded.
C4_Witness ==
    /\ VerifyDone
    /\ \E w0 \in Workspaces :
        /\ AllPresent(w0)
        /\ expectedHashes[1] = recordedHashes(hashIdentityFiles(w0), Entries)
        /\ OnlyContentChanged(w0, files, "USER.md")
    /\ result[1].files["USER.md"].status = "MISMATCH"

\* The run compared the workspace with the hash set of its own snapshot.
AgainstOwnSnapshot ==
    /\ VerifyDone
    /\ expectedHashes[1] = expectedHashesFile(hashIdentityFiles(files))

\* C5 as stated: verifying any workspace state against the hash set of its own
\* snapshot yields verified=true.
C5_Original == AgainstOwnSnapshot => result[1].verified

\* C5 amended: against its own snapshot a workspace verifies exactly when all three
\* documents are present; an absent document is MISSING.
C5_SelfVerifyWhenComplete ==
    AgainstOwnSnapshot =>
        /\ result[1].verified <=> AllPresent(files)
        /\ \A f \in DocNames :
            result[1].files[f].status = IF files[f].exists THEN "VERIFIED" ELSE "MISSING"
        /\ result[1].composite # None /\ result[1].composite[1].status = "VERIFIED"

\* An offline run on a complete workspace against its own snapshot.
C5_Witness ==
    /\ AgainstOwnSnapshot
    /\ opts.offline /\ TruthyStr(opts.expectedHashes)
    /\ AllPresent(files)
    /\ exitCode = Some(0)

\* The online lookup of the run found no registration: the token is unknown to the
\* registry, or its tokenURI resolved to no registration document.
NoRegistrationExists ==
    /\ cmd = "verify" /\ pc = "exited"
    /\ agent # None
    /\ \/ agent[1].cause = "nonexistent"
       \/ (agent[1].cause = "registered" /\ agent[1].registration = None)

\* C6 as stated: an online run for an agent identifier with no registration exits 2.
C6_Original == NoRegistrationExists => exitCode = Some(2)

\* The run has no agent identifier and is not offline.
OnlineWithoutAgentId == ~opts.offline /\ ~TruthyNum(opts.agentId)

\* C7 as stated: without a workspace, or online without an agent identifier, the
\* run ends with exit 3 and has made no network call.
C7_Original ==
    (cmd = "verify" /\ pc = "exited"
     /\ (~TruthyStr(opts.workspace) \/ OnlineWithoutAgentId)) =>
        exitCode = Some(3) /\ ~networkUsed

\* C7 amended: without a workspace the run ends with exit 3; online without an agent
\* identifier it ends with exit 2, or with exit 3 when reading a local file failed;
\* in both cases no network call was made.
C7_FailFast ==
    (cmd = "verify" /\ pc = "exited") =>
        /\ ~TruthyStr(opts.workspace) =>
            exitCode = Some(3) /\ error \in {"config", "io"} /\ ~networkUsed
        /\ (TruthyStr(opts.workspace) /\ OnlineWithoutAgentId) =>
            /\ ~networkUsed
            /\ exitCode = Some(2) \/ (exitCode = Some(3) /\ error = "io")

\* An online run with a workspace and no agent identifier that ended with exit 2.
C7_Witness ==
    /\ cmd = "verify" /\ pc = "exited"
    /\ TruthyStr(opts.workspace) /\ OnlineWithoutAgentId
    /\ exitCode = Some(2)
    /\ ~networkUsed

\* The hash a document contributes to the composite: its own hash when present, the
\* all-zero digest when missing.
Contribution(f) == IF files[f].exists THEN hashes[1][f].hash ELSE ZeroDigest

\* C8: the composite of a snapshot is the hash of the contributions of SOUL.md,
\* USER.md and IDENTITY.md in that order.
C8_CompositeConstruction ==
    HashDone =>
        /\ \A f \in DocNames : files[f].exists => hashes[1][f].hash # NULL
        /\ hashes[1]["_composite"].hash =
            keccak256(<<Contribution("SOUL.md"), Contribution("USER.md"),
                        Contribution("IDENTITY.md")>>)

\* A snapshot with a missing document and a present one.
C8_Witness ==
    /\ HashDone
    /\ \E f, g \in DocNames : ~files[f].exists /\ files[g].exists

\* C9: no other workspace state has the composite of the hashed one.
C9_CompositeInjective ==
    HashDone =>
        \A w \in Workspaces :
            hashIdentityFiles(w)["_composite"].hash = hashes[1]["_composite"].hash
                => w = files

\* A snapshot of a workspace with an absent document and two documents of different
\* content, one of them empty.
C9_Witness ==
    /\ HashDone
    /\ \E f, g, h \in DocNames :
        /\ ~files[f].exists
        /\ files[g].exists /\ files[g].content = <<>>
        /\ files[h].exists /\ files[h].content # <<>>

\* C10 as stated: every document hash and the composite of a snapshot are Ethereum
\* keccak-256 digests, those of the chain client's keccak256.
C10_Original ==
    HashDone =>
        /\ \A f \in DocNames :
            files[f].exists => hashes[1][f].hash = viemKeccak256(files[f].content)
        /\ hashes[1]["_composite"].hash.alg = "keccak-256"

\* C11 as stated: a read failure other than 'not found' ends the verify run with exit
\* code 3, with no verdict, and without the run having contacted the chain.
C11_Original ==
    (cmd = "verify" /\ ioFailure # None) =>
        /\ exitCode = Some(3)
        /\ result = None
        /\ ~networkUsed

\* C11, amended: only an absent document is taken as missing (exists = FALSE, hash
\* null). A read failure of another kind yields no snapshot and no verdict, so no
\* MISSING status, and the verify run exits 3; the run has not contacted the chain
\* when the failure is that of the first hashing (step 1), whereas a failure of the
\* re-read of step 3 comes after the chain lookup of an online run.
C11_ReadFailureAborts ==
    /\ HashDone =>
        /\ ioFailure = None
        /\ \A f \in DocNames :
            /\ hashes[1][f].exists = files[f].exists
            /\ (hashes[1][f].hash = NULL) = ~files[f].exists
    /\ (cmd = "hash" /\ ioFailure # None) => hashes = None
    /\ (cmd = "verify" /\ ioFailure # None) =>
        /\ exitCode = Some(3)
        /\ error = "io"
        /\ result = None
    /\ (cmd = "verify" /\ ioFailure = Some("hash")) =>
        /\ ~networkUsed
        /\ agent = None
        /\ expectedHashes = None
    /\ VerifyDone =>
        \A f \in DocNames : result[1].files[f].status = "MISSING" => ~files[f].exists

\* An online verify run, all documents present, ended by a read failure at step 1.
C11_Witness ==
    /\ cmd = "verify" /\ pc = "exited"
    /\ ioFailure = Some("hash")
    /\ ~opts.offline /\ opts.agentId # None
    /\ AllPresent(files)

\* An update run that has ended.
UpdateExited == cmd = "update" /\ pc = "exited"

\* An update or build run that has built its registration.
Built == cmd \in {"update", "build"} /\ registration # None

TxMembers == {"to", "data", "description"}

ResolutionFails(uri, host) ==
    \/ uri.scheme \in {"", "ftp", "noscheme"}
    \/ /\ uri.scheme = "data"
       /\ \/ ~uri.comma
          \/ uri.payload \in {<<"empty">>, <<"badpercent">>, <<"notjson">>,
                              <<"percent", <<"notjson">>>>,
                              <<"base64", <<"utf8", <<"notjson">>>>>>}
    \/ /\ uri.scheme \in {"ipfs", "https", "http"}
       /\ host # None
       /\ host[1].kind \in {"unreachable", "timeout", "non2xx", "notjson"}

\* Both reads of Promise.all have succeeded.
BothReadsSucceeded ==
    /\ Len(reads) = 2
    /\ \A i \in 1..2 : reads[i].outcome = "ok"

\* C14: once the owner and tokenURI reads have succeeded and the resolution of the
\* tokenURI has settled, lookupAgent has returned; the registration of the agent is
\* null whenever the resolution of the tokenURI fails.
C14_ResolutionNeverRaises ==
    (cmd = "lookup" /\ pc = "exited" /\ BothReadsSucceeded) =>
        /\ agent # None
        /\ ~agent[1].threw
        /\ error = "none"
        /\ ResolutionFails(tokenURI[1], remoteHost) => agent[1].registration = None
        /\ (tokenURI[1].scheme = "data") => remoteHost = None

\* A lookup whose tokenURI is an https URI of a host that does not answer in time.
C14_Witness ==
    /\ cmd = "lookup" /\ pc = "exited" /\ BothReadsSucceeded
    /\ tokenURI[1].scheme = "https"
    /\ remoteHost # None /\ remoteHost[1].kind = "timeout"
    /\ agent[1].registration = None

\* The chain's answer records, for every document, the hash of the local snapshot.
RecordsLocalHashes(entry) ==
    /\ entry.kind = "registered"
    /\ entry.registration # None
    /\ entry.registration[1].identityFiles # None
    /\ \A f \in DocNames :
        entry.registration[1].identityFiles[1][f] = newHashes[1][f].hash

\* C15: with an agent identifier configured, every answer of the chain that records
\* the local hash of each document makes step 2 end the run with no change; a run
\* that reports "no update needed" has exited 0 and has built no registration, no
\* data URI and no transaction, and has written no file.
C15_NoOpWhenEqual ==
    /\ (cmd = "update" /\ pc = "diff" /\ TruthyNum(config[1].agentId)) =>
        \A entry \in UpdateChainEntries :
            RecordsLocalHashes(entry) =>
                /\ checkOnChain(config[1], newHashes[1], entry).noop
                /\ checkOnChain(config[1], newHashes[1], entry).changes = <<>>
    /\ (cmd = "update" /\ report = "no update needed") =>
        /\ pc = "exited"
        /\ exitCode = Some(0)
        /\ error = "none"
        /\ networkUsed
        /\ changes = <<>>
        /\ registration = None
        /\ agentURI = None
        /\ tx = None
        /\ written = NothingWritten
        /\ ioFailure = None

\* An update run for agent 42 that has ended with "no update needed" on a
\* workspace with a document.
C15_Witness ==
    /\ UpdateExited
    /\ report = "no update needed"
    /\ config[1].agentId = Some(42)
    /\ \E f \in DocNames : newHashes[1][f].exists

\* The update run repeats the one before it: same config, no document edited since
\* before that run's end.
SecondRun == cmd = "update" /\ prevUpdate # None

\* C16 as stated: the second of two update runs in a row, with no edit in between,
\* reports zero differences and builds no transaction.
C16_Original ==
    (SecondRun /\ pc = "exited" /\ ioFailure = None) =>
        /\ report = "no update needed"
        /\ changes = <<>>
        /\ tx = None

\* C16, amended: no run publishes anything, so the second run reads the same
\* documents under the same config and ends with "no update needed" exactly when
\* the config has a non-zero agent identifier and the chain's answer records the
\* local hashes; otherwise it goes on to build, and with no agent identifier it
\* builds the register transaction again.
C16_SecondRunSameAsFirst ==
    SecondRun =>
        /\ prevUpdate = config
        /\ chainWrites = <<>>
        /\ newHashes # None => newHashes[1] = hashIdentityFiles(files)
        /\ pc = "diff" =>
            \A entry \in UpdateChainEntries :
                checkOnChain(config[1], newHashes[1], entry).noop
                    <=> (TruthyNum(config[1].agentId) /\ RecordsLocalHashes(entry))
        /\ report = "no update needed" => (tx = None /\ TruthyNum(config[1].agentId))
        /\ (pc = "exited" /\ ioFailure = None /\ ~TruthyNum(config[1].agentId)) =>
            /\ tx # None
            /\ tx[1].data.functionName = "register"

\* A second run that has ended with "no update needed".
C16_Witness ==
    /\ SecondRun /\ pc = "exited"
    /\ report = "no update needed"

\* C17 as stated: an update run with --output that has built its transaction has
\* written the handoff file and exited 0.
C17_Original ==
    (UpdateExited /\ tx # None /\ TruthyStr(opts.output) /\ ~opts.dryRun) =>
        /\ exitCode = Some(0)
        /\ written.output # None
        /\ DOMAIN written.output[1] =
              TxMembers \cup {"chainId", "registration", "changes", "timestamp"}
        /\ chainWrites = <<>>

\* C18 as stated: an update run with --sign that has reached its exit stage has
\* ended with a non-zero exit code and the report that signing is not implemented.
C18_Original ==
    (UpdateExited /\ tx # None /\ opts.sign) =>
        /\ exitCode \notin {None, Some(0)}
        /\ report = "signer not implemented"

\* C19 as stated: a registration built from a config with an agent identifier lists
\* exactly that identifier, and the update run's transaction is setAgentURI for it;
\* the transaction is register only when the config has no agent identifier.
C19_Original ==
    Built =>
        /\ config[1].agentId # None =>
            /\ Len(registration[1].registrations) = 1
            /\ registration[1].registrations[1].agentId = config[1].agentId[1]
            /\ cmd = "update" =>
                /\ tx[1].data.functionName = "setAgentURI"
                /\ tx[1].data.args[1] = config[1].agentId[1]
        /\ (cmd = "update" /\ tx[1].data.functionName = "register") =>
            config[1].agentId = None

\* C20: identityFiles is null, and a member of the JSON written, exactly when the
\* config has no workspace; otherwise it holds, for each document, the hash of the
\* document as it is read in that call (null if absent), the composite hash of
\* those, the algorithm tag and the timestamp.
C20_IdentityFiles ==
    Built =>
        /\ (registration[1].identityFiles = None) <=> (config[1].workspacePath = None)
        /\ "identityFiles" \in DOMAIN registration[1]
        /\ written.registration # None =>
            /\ "identityFiles" \in DOMAIN written.registration[1][2]
            /\ written.registration[1][2].identityFiles = registration[1].identityFiles
        /\ registration[1].identityFiles # None =>
            LET idf == registration[1].identityFiles[1]
            IN  /\ \A f \in DocNames :
                    idf.hashes[f] = IF files[f].exists
                                    THEN Digest("sha3-256", files[f].content)
                                    ELSE NULL
                /\ idf.hashes["_composite"] = hashIdentityFiles(files)["_composite"].hash
                /\ idf._algorithm = "keccak256"
                /\ idf._hashDate = Now

\* An update run whose registration was built after an edit: a document hashed at
\* step 1 is missing when the registration is built.
C20_Witness ==
    /\ UpdateExited /\ registration # None
    /\ \E f \in DocNames : newHashes[1][f].exists /\ ~files[f].exists

\* The chain's answer records the local hash of each document and a composite that
\* is not the local one, or none.
CompositeAloneDiffers(entry) ==
    /\ RecordsLocalHashes(entry)
    /\ entry.registration[1].identityFiles[1]["_composite"]
          # newHashes[1]["_composite"].hash

\* C23 as stated: when the chain records the local hash of each of the three
\* documents and a different composite, or no composite, step 2 of the update run
\* reports a difference and the run goes on to build its transaction.
C23_Original ==
    (cmd = "update" /\ pc = "diff" /\ TruthyNum(config[1].agentId)) =>
        \A entry \in UpdateChainEntries :
            CompositeAloneDiffers(entry) =>
                /\ ~checkOnChain(config[1], newHashes[1], entry).noop
                /\ checkOnChain(config[1], newHashes[1], entry).changes # <<>>

\* C27 as stated: a verify run with the offline flag makes no network call.
C27_Original == (cmd = "verify" /\ opts.offline) => ~networkUsed

\* The expected hash of entry e was recorded, compared and found equal.
ComparedAndMatched(e) ==
    /\ expectedHashes[1][e] # NULL
    /\ IF e = "_composite"
       THEN result[1].composite # None /\ result[1].composite[1].status = "VERIFIED"
       ELSE result[1].files[e].status = "VERIFIED"

\* C28 as stated: a verify run that has exited 0 has compared at least one expected
\* hash and found it equal; an expected hash set that records no hash never ends in
\* exit 0.
C28_Original ==
    (VerifyDone /\ exitCode = Some(0)) => \E e \in Entries : ComparedAndMatched(e)

\* C29 as stated: the hash set an update run writes to the expected-hashes file is
\* the one embedded in the registration built in that run.
C29_Original ==
    (UpdateExited /\ registration # None /\ written.expectedHashes # None) =>
        /\ registration[1].identityFiles # None
        /\ \A e \in Entries :
            written.expectedHashes[1][e] = registration[1].identityFiles[1].hashes[e]

\* The entry of document f in a snapshot of the workspace as it is now.
FreshEntry(f) ==
    IF files[f].exists
    THEN [hash |-> Digest("sha3-256", files[f].content),
          size |-> Len(files[f].content),
          exists |-> TRUE]
    ELSE [hash |-> NULL, size |-> 0, exists |-> FALSE]

\* The composite of a snapshot of the workspace as it is now.
FreshComposite ==
    Digest("sha3-256",
           [i \in 1..Len(IDENTITY_FILES) |->
               IF files[IDENTITY_FILES[i]].exists
               THEN FreshEntry(IDENTITY_FILES[i]).hash
               ELSE ZeroDigest])

\* C24: whatever edits, creations and deletions came before, a snapshot holds for
\* each document the hash of its content when it is read (exists=false, hash=null
\* if absent), and the composite of those; the second snapshot of an update run
\* follows an edit made since the first, and equals the first, document hashes and
\* composite, when nothing changed in between.
C24_FreshSnapshot ==
    /\ HashDone =>
        /\ \A f \in DocNames : hashes[1][f] = FreshEntry(f)
        /\ hashes[1]["_composite"].hash = FreshComposite
    /\ (UpdateExited /\ registration # None /\ registration[1].identityFiles # None) =>
        LET second == registration[1].identityFiles[1].hashes
        IN  /\ \A f \in DocNames : second[f] = FreshEntry(f).hash
            /\ second["_composite"] = FreshComposite
            /\ (\A f \in DocNames : newHashes[1][f] = FreshEntry(f)) =>
                \A e \in Entries : second[e] = newHashes[1][e].hash

\* An update run whose second snapshot was taken after the content of a document
\* changed: the document exists in both, with different hashes.
C24_Witness ==
    /\ UpdateExited /\ registration # None /\ registration[1].identityFiles # None
    /\ \E f \in DocNames :
        /\ newHashes[1][f].exists /\ files[f].exists
        /\ newHashes[1][f].hash # registration[1].identityFiles[1].hashes[f]

\* C21 as stated: tbaExists returns the address the registry derives from the
\* implementation, the all-zero salt, the chain id, the identity registry and the
\* agent identifier, whatever code is deployed there, and a boolean exists that is
\* true when the code at the address is non-empty and false otherwise.
C21_Original ==
    (cmd = "tba" /\ tba # None) =>
        /\ tba[1].address.account =
              <<CONTRACTS.TBA_IMPLEMENTATION, "0x00", CONTRACTS.CHAIN_ID,
                CONTRACTS.IDENTITY_REGISTRY, opts.agentId[1]>>
        /\ tba[1].exists = <<"boolean", deployed[1] \notin {None, Some(<<>>)}>>

\* A read of Promise.all has failed.
SomeReadFailed == \E i \in 1..Len(reads) : reads[i].outcome # "ok"

\* C25: the ownerOf and tokenURI reads are both pending once issued and settle in
\* either order; the resolution of the registration file starts only after both
\* have succeeded; the agent returned is determined by the tokenURI and the answer
\* of its host, whatever the order; when a read fails lookupAgent fails at once and
\* the registration file is never resolved.
C25_JointAwait ==
    cmd = "lookup" =>
        /\ pc = "reads" => (Len(reads) < 2 /\ agent = None /\ remoteHost = None)
        /\ (pc \in {"resolve", "body"} \/ remoteHost # None) => BothReadsSucceeded
        /\ (pc = "exited" /\ BothReadsSucceeded) =>
            /\ tokenURI # None
            /\ agent = Some(lookupAgentVia("registered", tokenURI[1],
                                           IF remoteHost # None THEN remoteHost[1]
                                           ELSE [kind |-> "unreachable", body |-> None]))
        /\ SomeReadFailed =>
            /\ pc = "exited"
            /\ reads[Len(reads)].outcome # "ok"
            /\ agent # None /\ agent[1].threw /\ agent[1].registration = None
            /\ error = "chain"
            /\ remoteHost = None

\* A lookup in which the tokenURI read settled before the ownerOf read and the
\* registration file was resolved from a host.
C25_Witness ==
    /\ cmd = "lookup" /\ pc = "exited" /\ BothReadsSucceeded
    /\ reads[1].read = "tokenURI"
    /\ remoteHost # None
    /\ agent[1].registration # None

\* C22 as stated: whatever the host of an http(s) or ipfs tokenURI does, a host
\* that never answers and a host that sends the headers and never the body
\* included, the resolution of the registration file returns: a lookup whose two
\* reads have succeeded ends.
C22_Original == (cmd = "lookup" /\ pc = "resolve") ~> (pc = "exited")

\* C30: with an agent identifier configured, a chain lookup that raises makes step
\* 2 neither end the run nor report "no update needed": the change list is empty
\* and the run goes on to build the registration and the setAgentURI transaction
\* for that identifier; only a read failure of a document stops it before that.
C30_LookupErrorProceeds ==
    /\ (cmd = "update" /\ pc = "diff" /\ TruthyNum(config[1].agentId)) =>
        \A entry \in UpdateChainEntries :
            lookupAgent(entry).threw =>
                /\ checkOnChain(config[1], newHashes[1], entry).contacted
                /\ ~checkOnChain(config[1], newHashes[1], entry).noop
                /\ checkOnChain(config[1], newHashes[1], entry).changes = <<>>
    /\ (cmd = "update" /\ notice = "could not read on-chain state") =>
        /\ TruthyNum(config[1].agentId)
        /\ networkUsed
        /\ changes = <<>>
        /\ report # "no update needed"
        /\ pc \in {"build", "exited"}
        /\ error # "chain"
        /\ (pc = "exited" /\ ioFailure # None) => (error = "io" /\ tx = None)
        /\ (pc = "exited" /\ ioFailure = None) =>
            /\ registration # None
            /\ tx # None
            /\ tx[1].data.functionName = "setAgentURI"
            /\ tx[1].data.args[1] = config[1].agentId[1]
            /\ tx[1].data.args[2] = agentURI[1]

\* A dry run for agent 42 that could not read the chain and has built its
\* transaction with an empty change list.
C30_Witness ==
    /\ UpdateExited /\ notice = "could not read on-chain state"
    /\ config[1].agentId = Some(42)
    /\ opts.dryRun
    /\ tx # None /\ changes = <<>>
    /\ exitCode = Some(0)

\* C26 as stated: a verify run with --strict that gave a document the status
\* NO_CHAIN_HASH has failed; without the flag NO_CHAIN_HASH alone does not fail the
\* run.
C26_Original ==
    VerifyDone =>
        /\ (opts.strict /\ \E f \in DocNames : result[1].files[f].status = "NO_CHAIN_HASH")
            => exitCode \notin {None, Some(0)}
        /\ (~opts.strict
            /\ \A f \in DocNames : result[1].files[f].status \in {"VERIFIED", "NO_CHAIN_HASH"}
            /\ (result[1].composite = None \/ result[1].composite[1].status = "VERIFIED"))
            => exitCode = Some(0)

====
